---- MODULE Spec2Model ----
(***************************************************************************)
(* Model of pageserver/src/layered_repository/snapshot_layer.rs:           *)
(* the immutable SnapshotLayer (page versions + relation sizes of one     *)
(* relation in an LSN range), its page reconstruction, its size queries,   *)
(* its file naming and its save/load through the timeline directory.       *)
(***************************************************************************)
EXTENDS Integers, Sequences, FiniteSets, TLC

VARIABLES
    layer,      \* the in-memory SnapshotLayer under test, or None
    dir,        \* the timeline directory: file name -> file content
    pc,         \* position of the calling thread
    call,       \* the operation in progress / last finished, with its arguments
    result,     \* the value the last finished operation returned
    redo_log,   \* the request_redo calls made by the current get_page_at_lsn
    saving,     \* the unit whose save() is in progress and how far it got, or None
    partial,    \* history: identities whose last save() a crash interrupted
    completed,  \* history: the units whose save() ran to completion
    threads,    \* concurrent callers of one unit: each thread's position and locals
    page_versions_lock,  \* the thread holding the page_versions mutex, or None
    relsizes_lock,       \* the thread holding the relsizes mutex, or None
    pair        \* two units of one identity given the same get_page_at_lsn call

vars == <<layer, dir, pc, call, result, redo_log, saving, partial, completed,
          threads, page_versions_lock, relsizes_lock, pair>>

(***************************************************************************)
(* Bounds of the model.                                                    *)
(***************************************************************************)
MaxLsn == 2          \* LSNs of page versions and sizes are in 0..MaxLsn
MaxVersions == 3     \* a version history holds at most this many entries
MaxSizes == 2        \* a size history holds at most this many entries
MaxRelSize == 2      \* relation sizes are in 0..MaxRelSize
MaxFiles == 2        \* the directory scanned holds at most this many files
MaxWrite == 3        \* one write() of write_all moves at most this many fields
MaxUnits == 2        \* at most this many units are created in one directory

(***************************************************************************)
(* Values.                                                                 *)
(***************************************************************************)
None == [some |-> FALSE]              \* Option::None
Some(v) == [some |-> TRUE, val |-> v] \* Option::Some(v)

BLCKSZ == 8192                       \* length of ZERO_PAGE

\* Bytes: a buffer of `len` bytes, all equal to `fill` (page contents are
\* opaque to the layer; it only clones and returns them).
Bytes(len, fill) == [len |-> len, fill |-> fill]

ZERO_PAGE == Bytes(BLCKSZ, 0)

Blocks == {0, 1}
Lsns == 0 .. MaxLsn
QueryLsns == 0 .. MaxLsn + 1

\* RelTag { spcnode, dbnode, relnode, forknum }
RelTag(s, d, r, f) == [spcnode |-> s, dbnode |-> d, relnode |-> r, forknum |-> f]
Tag1 == RelTag(1, 1, 1, 0)
Tag2 == RelTag(1, 2, 1, 0)
Tags == {Tag1, Tag2}

\* WALRecord { will_init, rec }: rec is the opaque payload.
WALRecord(wi, rec) == [will_init |-> wi, rec |-> rec]

\* PageVersion { page_image: Option<Bytes>, record: Option<WALRecord> }
PageVersion(img, rec) == [page_image |-> img, record |-> rec]

\* The page versions a history can hold at key k = <<blknum, lsn>>: an image, a
\* record that initializes the page, a record that does not, or an entry with
\* neither.  Payloads are labelled by the key, so that any two entries differ.
Label(k) == 1 + k[1] * (MaxLsn + 1) + k[2]
VersionsAt(k) ==
    { PageVersion(Some(Bytes(BLCKSZ, Label(k))), None),
      PageVersion(None, Some(WALRecord(TRUE, Label(k)))),
      PageVersion(None, Some(WALRecord(FALSE, Label(k)))),
      PageVersion(None, None) }

VersionKeys == Blocks \X Lsns

\* the subsets of S with at most k elements
RECURSIVE SubsetsUpTo(_, _)
SubsetsUpTo(S, k) ==
    IF k = 0 THEN {{}}
    ELSE LET smaller == SubsetsUpTo(S, k - 1)
         IN  smaller \cup { T \cup {x} : T \in smaller, x \in S }

\* BTreeMap<(u32, Lsn), PageVersion>: the maps with exactly the keys K, and the
\* maps with at most n of the given keys
RECURSIVE VersionMapsOver(_)
VersionMapsOver(K) ==
    IF K = {} THEN {<< >>}
    ELSE LET k == CHOOSE x \in K : TRUE
         IN  { (k :> v) @@ m : v \in VersionsAt(k), m \in VersionMapsOver(K \ {k}) }
PageVersionMaps(keys, n) == UNION { VersionMapsOver(K) : K \in SubsetsUpTo(keys, n) }

\* BTreeMap<Lsn, u32> with at most MaxSizes entries
RelSizeMaps ==
    UNION { [K -> 0 .. MaxRelSize] :
            K \in SubsetsUpTo(Lsns, MaxSizes) }

EmptyMap == [k \in {} |-> None]

SnapshotLayer(tag, start_lsn, end_lsn, page_versions, relsizes) ==
    [tag |-> tag, start_lsn |-> start_lsn, end_lsn |-> end_lsn,
     page_versions |-> page_versions, relsizes |-> relsizes]

\* Result<T>
Ok(v) == [kind |-> "ok", val |-> v]
Err(msg) == [kind |-> "err", msg |-> msg]
Panic(msg) == [kind |-> "panic", msg |-> msg]
NoResult == [kind |-> "none"]

NoCall == [op |-> "none"]

(***************************************************************************)
(* get_page_at_lsn: the backward scan and the resolution.                  *)
(***************************************************************************)
\* Ord for (u32, Lsn): lexicographic
KeyLe(a, b) == a[1] < b[1] \/ (a[1] = b[1] /\ a[2] <= b[2])

\* page_versions.range((Included(&minkey), Included(&maxkey)))
\* (variant: a range that compares only the LSN and forgets the block number)
RangeMutLsnOnly(pv, minkey, maxkey) ==
    { k \in DOMAIN pv : minkey[2] <= k[2] /\ k[2] <= maxkey[2] }
\* (variant: a range without its upper LSN bound, to the end of the block)
RangeMutUnboundedLsn(pv, minkey, maxkey) ==
    { k \in DOMAIN pv : KeyLe(minkey, k) /\ k[1] <= maxkey[1] }
Range(pv, minkey, maxkey) ==
    { k \in DOMAIN pv : KeyLe(minkey, k) /\ KeyLe(k, maxkey) }

\* iter.next_back(): the greatest key left in the range
\* (variant: the range is walked forward, from its smallest key)
NextBackMutForward(keys) == CHOOSE k \in keys : \A j \in keys : KeyLe(k, j)
NextBack(keys) == CHOOSE k \in keys : \A j \in keys : KeyLe(j, k)

ScanStart(lsn) ==
    [records |-> << >>, page_img |-> None, need_base_image_lsn |-> Some(lsn),
     bailed |-> FALSE]

\* One iteration of the while-let loop on entry pv[k]; `continue` tells whether
\* the loop goes on to the next older entry.
ScanEntry(st, k, entry) ==
    IF entry.page_image # None
    THEN [st |-> [st EXCEPT !.page_img = entry.page_image,
                            !.need_base_image_lsn = None],
          continue |-> FALSE]
    ELSE IF entry.record # None
    THEN IF entry.record.val.will_init
         THEN [st |-> [st EXCEPT !.records = Append(@, entry.record.val),
                                 !.need_base_image_lsn = None],
               continue |-> FALSE]
         ELSE [st |-> [st EXCEPT !.records = Append(@, entry.record.val),
                                 !.need_base_image_lsn = Some(k[2])],
               continue |-> TRUE]
    ELSE [st |-> [st EXCEPT !.bailed = TRUE], continue |-> FALSE]

RECURSIVE ScanLoop(_, _, _)
ScanLoop(pv, keys, st) ==
    IF keys = {} THEN st
    ELSE LET k == NextBack(keys)
             step == ScanEntry(st, k, pv[k])
         IN  IF step.continue THEN ScanLoop(pv, keys \ {k}, step.st) ELSE step.st

\* records.reverse()
RECURSIVE Reverse(_)
Reverse(s) == IF s = << >> THEN << >> ELSE Append(Reverse(Tail(s)), Head(s))

\* (variant: the records are left newest first)
ReversedMutKeepOrder(s) == s
Reversed(s) == Reverse(s)

\* The block of get_page_at_lsn that holds the page_versions lock, and the
\* records.reverse() after it.
Scan(pv, blknum, lsn) ==
    LET st == ScanLoop(pv, Range(pv, <<blknum, 0>>, <<blknum, lsn>>), ScanStart(lsn))
    IN  [st EXCEPT !.records = Reversed(@)]

\* What get_page_at_lsn does after the scan: return a value ("ok"/"err") or
\* call walredo_mgr.request_redo ("redo").
\* (variant: records without a base image fall back to the zero page)
ResolveMutZeroFallback(tag, blknum, lsn, sc) ==
    IF sc.bailed THEN [kind |-> "ret", res |-> Err("no page image or WAL record")]
    ELSE IF sc.need_base_image_lsn # None
    THEN [kind |-> "ret", res |-> Ok(ZERO_PAGE)]
    ELSE IF sc.records = << >>
    THEN [kind |-> "ret", res |-> Ok(sc.page_img.val)]
    ELSE [kind |-> "redo",
          req |-> [tag |-> tag, blknum |-> blknum, lsn |-> lsn,
                   base_img |-> sc.page_img, records |-> sc.records]]
Resolve(tag, blknum, lsn, sc) ==
    IF sc.bailed THEN [kind |-> "ret", res |-> Err("no page image or WAL record")]
    ELSE IF sc.need_base_image_lsn # None
    THEN IF sc.records = << >>
         THEN [kind |-> "ret", res |-> Ok(ZERO_PAGE)]
         ELSE [kind |-> "ret", res |-> Err("No base image found")]
    ELSE IF sc.records = << >>
    THEN IF sc.page_img # None
         THEN [kind |-> "ret", res |-> Ok(sc.page_img.val)]
         ELSE [kind |-> "ret", res |-> Ok(ZERO_PAGE)]
    ELSE IF sc.page_img = None /\ ~ Head(sc.records).will_init
    THEN [kind |-> "ret", res |-> Ok(ZERO_PAGE)]
    ELSE [kind |-> "redo",
          req |-> [tag |-> tag, blknum |-> blknum, lsn |-> lsn,
                   base_img |-> sc.page_img, records |-> sc.records]]

\* What the external redo executor can answer: an image or an error.
RedoImage == Bytes(BLCKSZ, 255)
RedoAnswers == {Ok(RedoImage), Err("redo failed")}

\* get_page_at_lsn up to its return or its request_redo call
GetPageAtLsn(blknum, lsn) ==
    /\ pc = "idle"
    /\ layer # None
    /\ LET r == Resolve(layer.tag, blknum, lsn, Scan(layer.page_versions, blknum, lsn))
       IN  /\ call' = [op |-> "get_page_at_lsn", blknum |-> blknum, lsn |-> lsn]
           /\ IF r.kind = "redo"
              THEN /\ pc' = "redo"
                   /\ redo_log' = <<r.req>>
                   /\ result' = NoResult
              ELSE /\ pc' = "done"
                   /\ redo_log' = << >>
                   /\ result' = r.res
    /\ UNCHANGED <<layer, dir, saving, partial, completed,
                 threads, page_versions_lock, relsizes_lock, pair>>

\* request_redo returns: `?` propagates its error, Ok(img) is returned
RequestRedoReturn(answer) ==
    /\ pc = "redo"
    /\ pc' = "done"
    /\ result' = answer
    /\ UNCHANGED <<layer, dir, call, redo_log, saving, partial, completed,
                 threads, page_versions_lock, relsizes_lock, pair>>

\* The caller takes the returned value and is free to make its next call.
Return ==
    /\ pc = "done"
    /\ pc' = "idle"
    /\ call' = NoCall
    /\ result' = NoResult
    /\ redo_log' = << >>
    /\ UNCHANGED <<layer, dir, saving, partial, completed,
                 threads, page_versions_lock, relsizes_lock, pair>>

(***************************************************************************)
(* get_rel_size, get_rel_exists, and the unsupported write operations.     *)
(***************************************************************************)
\* relsizes.range((Included(&Lsn(0)), Included(&lsn)))
RelSizeRange(rs, lsn) == { k \in DOMAIN rs : 0 <= k /\ k <= lsn }

\* iter.next_back() on the size history
\* (variant: the oldest entry of the range is taken)
LastLsnMutFirst(keys) == CHOOSE k \in keys : \A j \in keys : k <= j
LastLsn(keys) == CHOOSE k \in keys : \A j \in keys : j <= k

RelSizeAt(rs, lsn) ==
    LET keys == RelSizeRange(rs, lsn)
    IN  IF keys # {} THEN Ok(rs[LastLsn(keys)]) ELSE Err("No size found for relfile")

RelExistsAt(rs, lsn) == Ok(RelSizeRange(rs, lsn) # {})

is_frozen(l) == TRUE

get_rel_size(lsn) ==
    /\ pc = "idle"
    /\ layer # None
    /\ call' = [op |-> "get_rel_size", lsn |-> lsn]
    /\ result' = RelSizeAt(layer.relsizes, lsn)
    /\ redo_log' = << >>
    /\ pc' = "done"
    /\ UNCHANGED <<layer, dir, saving, partial, completed,
                 threads, page_versions_lock, relsizes_lock, pair>>

get_rel_exists(lsn) ==
    /\ pc = "idle"
    /\ layer # None
    /\ call' = [op |-> "get_rel_exists", lsn |-> lsn]
    /\ result' = RelExistsAt(layer.relsizes, lsn)
    /\ redo_log' = << >>
    /\ pc' = "done"
    /\ UNCHANGED <<layer, dir, saving, partial, completed,
                 threads, page_versions_lock, relsizes_lock, pair>>

\* panic!("cannot modify historical snapshot file, ...")
put_page_version(blknum, lsn, pv) ==
    /\ pc = "idle"
    /\ layer # None
    /\ call' = [op |-> "put_page_version", blknum |-> blknum, lsn |-> lsn]
    /\ result' = Panic("cannot modify historical snapshot file")
    /\ redo_log' = << >>
    /\ pc' = "done"
    /\ UNCHANGED <<layer, dir, saving, partial, completed,
                 threads, page_versions_lock, relsizes_lock, pair>>

\* bail!("cannot modify historical snapshot file")
\* (variant: the truncation is applied to the size history)
put_truncationMutApply(lsn, relsize) ==
    /\ pc = "idle"
    /\ layer # None
    /\ call' = [op |-> "put_truncation", lsn |-> lsn, relsize |-> relsize]
    /\ result' = Ok("unit")
    /\ layer' = [layer EXCEPT !.relsizes =
                    [k \in DOMAIN @ \cup {lsn} |-> IF k = lsn THEN relsize ELSE @[k]]]
    /\ redo_log' = << >>
    /\ pc' = "done"
    /\ UNCHANGED <<dir, saving, partial, completed,
                 threads, page_versions_lock, relsizes_lock, pair>>
put_truncation(lsn, relsize) ==
    /\ pc = "idle"
    /\ layer # None
    /\ call' = [op |-> "put_truncation", lsn |-> lsn, relsize |-> relsize]
    /\ result' = Err("cannot modify historical snapshot file")
    /\ redo_log' = << >>
    /\ pc' = "done"
    /\ UNCHANGED <<layer, dir, saving, partial, completed,
                 threads, page_versions_lock, relsizes_lock, pair>>

\* bail!("cannot freeze historical snapshot file")
freeze(end_lsn) ==
    /\ pc = "idle"
    /\ layer # None
    /\ call' = [op |-> "freeze", lsn |-> end_lsn]
    /\ result' = Err("cannot freeze historical snapshot file")
    /\ redo_log' = << >>
    /\ pc' = "done"
    /\ UNCHANGED <<layer, dir, saving, partial, completed,
                 threads, page_versions_lock, relsizes_lock, pair>>

(***************************************************************************)
(* File names.  A name is a sequence of characters.                        *)
(***************************************************************************)
HexWidth == 16                         \* {:016X}
Digits == <<"0", "1", "2", "3", "4", "5", "6", "7", "8", "9",
            "A", "B", "C", "D", "E", "F">>
LowerHex == <<"a", "b", "c", "d", "e", "f">>
U8Max == 255

\* format!("{}", n) of an unsigned integer
RECURSIVE DecStr(_)
DecStr(n) ==
    IF n < 10 THEN <<Digits[n + 1]>>
    ELSE Append(DecStr(n \div 10), Digits[(n % 10) + 1])

\* format!("{:016X}", n): upper-case hexadecimal, zero-padded to `width`
RECURSIVE HexStr(_, _)
HexStr(n, width) ==
    IF width <= 1 /\ n < 16 THEN <<Digits[n + 1]>>
    ELSE Append(HexStr(n \div 16, width - 1), Digits[(n % 16) + 1])

Underscore == <<"_">>
RelsizesSuffix == <<"_", "r", "e", "l", "s", "i", "z", "e", "s">>

\* the file name path_for() builds (the directory part is the timeline's)
path_for(tag, start_lsn, end_lsn) ==
    DecStr(tag.spcnode) \o Underscore \o DecStr(tag.dbnode) \o Underscore
    \o DecStr(tag.relnode) \o Underscore \o DecStr(tag.forknum) \o Underscore
    \o HexStr(start_lsn, HexWidth) \o Underscore \o HexStr(end_lsn, HexWidth)

relsizes_path(path) == path \o RelsizesSuffix

\* fname.split('_'): the fields between underscores, in order
RECURSIVE SplitFrom(_, _, _)
SplitFrom(s, i, cur) ==
    IF i > Len(s) THEN <<cur>>
    ELSE IF s[i] = "_" THEN <<cur>> \o SplitFrom(s, i + 1, << >>)
    ELSE SplitFrom(s, i + 1, Append(cur, s[i]))
Split(s) == SplitFrom(s, 1, << >>)

\* the value of each digit character
CharValue ==
    [c \in { Digits[d] : d \in 1 .. 16 } \cup { LowerHex[d] : d \in 1 .. 6 } |->
        IF \E d \in 1 .. 16 : Digits[d] = c
        THEN (CHOOSE d \in 1 .. 16 : Digits[d] = c) - 1
        ELSE (CHOOSE d \in 1 .. 6 : LowerHex[d] = c) + 9]

\* the value of a digit character in the given radix, or -1
DigitValue(c, radix) ==
    IF c \in DOMAIN CharValue /\ CharValue[c] < radix THEN CharValue[c] ELSE -1

\* from_str_radix on the digits: all must be digits of the radix
RECURSIVE DigitsValue(_, _, _)
DigitsStep(rest, radix, acc, d) ==
    IF d < 0 THEN None ELSE DigitsValue(rest, radix, acc * radix + d)
DigitsValue(s, radix, acc) ==
    IF s = << >> THEN Some(acc)
    ELSE DigitsStep(Tail(s), radix, acc, DigitValue(Head(s), radix))

\* str::parse::<u32>() / ::<u8>() and u64::from_str_radix(s, 16): an optional
\* '+', then at least one digit, nothing else.  (Values in this model stay far
\* below 2^31; `max` is the type's limit where the model can reach it, else -1.)
SkipPlus(s) == IF s # << >> /\ Head(s) = "+" THEN Tail(s) ELSE s
ParseDigits(body, radix) ==
    IF body = << >> THEN None ELSE DigitsValue(body, radix, 0)
CheckMax(v, max) == IF v.some /\ max >= 0 /\ v.val > max THEN None ELSE v
ParseUint(s, radix, max) == CheckMax(ParseDigits(SkipPlus(s), radix), max)

\* Lsn::from_hex
from_hex(s) == ParseUint(s, 16, -1)

\* fname_to_tag: the first six fields, whatever follows them
TagOfFields(spcnode, dbnode, relnode, forknum, start_lsn, end_lsn) ==
    IF /\ spcnode.some /\ dbnode.some /\ relnode.some /\ forknum.some
       /\ start_lsn.some /\ end_lsn.some
    THEN Some([tag |-> RelTag(spcnode.val, dbnode.val, relnode.val, forknum.val),
               start_lsn |-> start_lsn.val, end_lsn |-> end_lsn.val])
    ELSE None
TagOfParts(parts) ==
    IF Len(parts) < 6 THEN None
    ELSE TagOfFields(ParseUint(parts[1], 10, -1), ParseUint(parts[2], 10, -1),
                     ParseUint(parts[3], 10, -1), ParseUint(parts[4], 10, U8Max),
                     from_hex(parts[5]), from_hex(parts[6]))
fname_to_tag(fname) == TagOfParts(Split(fname))

(***************************************************************************)
(* The directory scanner.  read_dir yields the entries in an order the     *)
(* file system chooses: `order` is a sequence of the directory's names.    *)
(***************************************************************************)
Orders(names) ==
    { o \in [1 .. Cardinality(names) -> names] :
        \A i, j \in 1 .. Cardinality(names) : i # j => o[i] # o[j] }

\* the loop body of find_latest_snapshot_file on one directory entry, t being
\* what fname_to_tag made of its name
\* (variant: start_lsn is not compared with lsn)
FindLatestStepMutNoLsnCheck(acc, t, tag, lsn) ==
    IF t.some /\ t.val.tag = tag /\ t.val.start_lsn > acc.result_start_lsn
    THEN [result_start_lsn |-> t.val.start_lsn, result_end_lsn |-> t.val.end_lsn]
    ELSE acc
FindLatestStep(acc, t, tag, lsn) ==
    IF /\ t.some /\ t.val.tag = tag /\ t.val.start_lsn <= lsn
       /\ t.val.start_lsn > acc.result_start_lsn
    THEN [result_start_lsn |-> t.val.start_lsn, result_end_lsn |-> t.val.end_lsn]
    ELSE acc

\* LSN ranges [start_lsn, end_lsn) of units
Ranges == { r \in (0 .. MaxLsn) \X (1 .. MaxLsn + 1) : r[1] < r[2] }

\* names that are no unit files: an unrelated name, and one whose LSN is no number
ForeignNames ==
    { <<"f", "o", "o">>,
      <<"1", "_", "1", "_", "1", "_", "0", "_", "z", "_", "1">> }

\* every file name the directories of this model hold
UnitPaths == { path_for(tag, r[1], r[2]) : tag \in Tags, r \in Ranges }
CompanionPaths == { relsizes_path(path) : path \in UnitPaths }
DirNames == UnitPaths \cup CompanionPaths \cup ForeignNames
\* the same names, numbered
RECURSIVE Enumerate(_)
Enumerate(S) ==
    IF S = {} THEN << >>
    ELSE LET x == CHOOSE y \in S : TRUE IN <<x>> \o Enumerate(S \ {x})
DirNameList == Enumerate(DirNames)

\* fname_to_tag of every name, computed once: the code decodes each name as the
\* loop reaches it, and the function is pure
NameTable == { <<n, fname_to_tag(n)>> : n \in DirNames }
Decoded(names) == { p \in NameTable : p[1] \in names }
TagOf(dec, fname) == (CHOOSE p \in dec : p[1] = fname)[2]

RECURSIVE FindLatestLoop(_, _, _, _, _, _)
FindLatestLoop(order, dec, i, acc, tag, lsn) ==
    IF i > Len(order) THEN acc
    ELSE FindLatestLoop(order, dec, i + 1,
                        FindLatestStep(acc, TagOf(dec, order[i]), tag, lsn),
                        tag, lsn)

\* the end of find_latest_snapshot_file: Lsn(0) means nothing was found
FindLatestResult(acc) ==
    IF acc.result_start_lsn # 0
    THEN Some([start_lsn |-> acc.result_start_lsn, end_lsn |-> acc.result_end_lsn])
    ELSE None

\* find_latest_snapshot_file: Some((start_lsn, end_lsn)) or None
find_latest_snapshot_file(order, dec, tag, lsn) ==
    FindLatestResult(FindLatestLoop(order, dec, 1,
                        [result_start_lsn |-> 0, result_end_lsn |-> 0], tag, lsn))

\* list_rels: the tags of the decodable names that pass the filters
ListRelsFilter(t, spcnode, dbnode) ==
    /\ t.some
    /\ (spcnode = 0 \/ t.val.tag.spcnode = spcnode)
    /\ (dbnode = 0 \/ t.val.tag.dbnode = dbnode)
list_rels(order, dec, spcnode, dbnode) ==
    { t.val.tag :
        t \in { x \in { TagOf(dec, order[i]) : i \in 1 .. Len(order) } :
                  ListRelsFilter(x, spcnode, dbnode) } }

(***************************************************************************)
(* Serialization of the two maps (BeSer: length, then the entries in key   *)
(* order, each field in turn).  A file's content is a sequence of fields.  *)
(***************************************************************************)
SerOptBytes(o) == IF o.some THEN <<1, o.val.len, o.val.fill>> ELSE <<0>>
SerOptRecord(o) ==
    IF o.some THEN <<1, IF o.val.will_init THEN 1 ELSE 0, o.val.rec>> ELSE <<0>>

RECURSIVE SerPageVersionEntries(_, _)
SerPageVersionEntries(pv, keys) ==
    IF keys = {} THEN << >>
    ELSE LET k == CHOOSE x \in keys : \A y \in keys : KeyLe(x, y)
         IN  <<k[1], k[2]>> \o SerOptBytes(pv[k].page_image)
             \o SerOptRecord(pv[k].record)
             \o SerPageVersionEntries(pv, keys \ {k})
SerPageVersions(pv) ==
    <<Cardinality(DOMAIN pv)>> \o SerPageVersionEntries(pv, DOMAIN pv)

RECURSIVE SerRelsizeEntries(_, _)
SerRelsizeEntries(rs, keys) ==
    IF keys = {} THEN << >>
    ELSE LET k == CHOOSE x \in keys : \A y \in keys : x <= y
         IN  <<k, rs[k]>> \o SerRelsizeEntries(rs, keys \ {k})
SerRelsizes(rs) == <<Cardinality(DOMAIN rs)>> \o SerRelsizeEntries(rs, DOMAIN rs)

DesFail == [ok |-> FALSE]
DesOptBytes(buf, i) ==
    IF i > Len(buf) THEN DesFail
    ELSE IF buf[i] = 0 THEN [ok |-> TRUE, val |-> None, next |-> i + 1]
    ELSE IF buf[i] = 1 /\ i + 2 <= Len(buf)
    THEN [ok |-> TRUE, val |-> Some(Bytes(buf[i + 1], buf[i + 2])), next |-> i + 3]
    ELSE DesFail
DesOptRecord(buf, i) ==
    IF i > Len(buf) THEN DesFail
    ELSE IF buf[i] = 0 THEN [ok |-> TRUE, val |-> None, next |-> i + 1]
    ELSE IF buf[i] = 1 /\ i + 2 <= Len(buf) /\ buf[i + 1] \in {0, 1}
    THEN [ok |-> TRUE, val |-> Some(WALRecord(buf[i + 1] = 1, buf[i + 2])),
          next |-> i + 3]
    ELSE DesFail

RECURSIVE DesPageVersionEntries(_, _, _, _)
DesPageVersionEntries(buf, i, n, acc) ==
    IF n = 0 THEN (IF i = Len(buf) + 1 THEN Some(acc) ELSE None)
    ELSE IF i + 1 > Len(buf) THEN None
    ELSE LET img == DesOptBytes(buf, i + 2)
         IN  IF ~ img.ok THEN None
             ELSE LET rec == DesOptRecord(buf, img.next)
                  IN  IF ~ rec.ok THEN None
                      ELSE DesPageVersionEntries(buf, rec.next, n - 1,
                              (<<buf[i], buf[i + 1]>> :> PageVersion(img.val, rec.val))
                              @@ acc)
\* BTreeMap::des of the page versions file: Some(map), or None for an error
DesPageVersions(buf) ==
    IF buf = << >> THEN None ELSE DesPageVersionEntries(buf, 2, buf[1], EmptyMap)

RECURSIVE DesRelsizeEntries(_, _, _, _)
DesRelsizeEntries(buf, i, n, acc) ==
    IF n = 0 THEN (IF i = Len(buf) + 1 THEN Some(acc) ELSE None)
    ELSE IF i + 1 > Len(buf) THEN None
    ELSE DesRelsizeEntries(buf, i + 2, n - 1, (buf[i] :> buf[i + 1]) @@ acc)
\* BTreeMap::des of the relsizes file
DesRelsizes(buf) ==
    IF buf = << >> THEN None ELSE DesRelsizeEntries(buf, 2, buf[1], EmptyMap)

(***************************************************************************)
(* load, create and save.                                                  *)
(***************************************************************************)
Identity(snap) ==
    [tag |-> snap.tag, start_lsn |-> snap.start_lsn, end_lsn |-> snap.end_lsn]

\* load_path, from the second file on
LoadRelsizes(tag, start_lsn, end_lsn, page_versions, relsizes) ==
    IF ~ relsizes.some THEN Err("des relsizes")
    ELSE Ok(SnapshotLayer(tag, start_lsn, end_lsn, page_versions, relsizes.val))
LoadPageVersions(d, tag, start_lsn, end_lsn, page_versions, rpath) ==
    IF ~ page_versions.some THEN Err("des page versions")
    ELSE IF rpath \notin DOMAIN d THEN Err("read relsizes")
    ELSE LoadRelsizes(tag, start_lsn, end_lsn, page_versions.val, DesRelsizes(d[rpath]))
LoadFiles(d, tag, start_lsn, end_lsn, path) ==
    IF path \notin DOMAIN d THEN Err("read page versions")
    ELSE LoadPageVersions(d, tag, start_lsn, end_lsn, DesPageVersions(d[path]),
                          relsizes_path(path))
load_path(d, tag, start_lsn, end_lsn) ==
    LoadFiles(d, tag, start_lsn, end_lsn, path_for(tag, start_lsn, end_lsn))

\* load: Ok(Some(layer)), Ok(None), or the error of load_path
LoadSnap(snap) == IF snap.kind = "ok" THEN Ok(Some(snap.val)) ELSE snap
LoadFound(d, tag, found) ==
    IF found.some
    THEN LoadSnap(load_path(d, tag, found.val.start_lsn, found.val.end_lsn))
    ELSE Ok(None)
load(d, order, tag, lsn) ==
    LoadFound(d, tag, find_latest_snapshot_file(order, Decoded(DOMAIN d), tag, lsn))

\* the results a scan of directory d can give, over the orders read_dir can
\* yield its entries in
FindLatestResults(d, tag, lsn) ==
    LET dec == Decoded(DOMAIN d)
    IN  { find_latest_snapshot_file(order, dec, tag, lsn) : order \in Orders(DOMAIN d) }
ListRelsResults(d, spcnode, dbnode) ==
    LET dec == Decoded(DOMAIN d)
    IN  { list_rels(order, dec, spcnode, dbnode) : order \in Orders(DOMAIN d) }

FindLatestSnapshotFile(tag, lsn) ==
    /\ pc = "idle"
    /\ \E found \in FindLatestResults(dir, tag, lsn) :
          /\ call' = [op |-> "find_latest_snapshot_file", tag |-> tag, lsn |-> lsn]
          /\ result' = Ok(found)
    /\ pc' = "done"
    /\ UNCHANGED <<layer, dir, redo_log, saving, partial, completed,
                 threads, page_versions_lock, relsizes_lock, pair>>

ListRels(spcnode, dbnode) ==
    /\ pc = "idle"
    /\ \E rels \in ListRelsResults(dir, spcnode, dbnode) :
          /\ call' = [op |-> "list_rels", spcnode |-> spcnode, dbnode |-> dbnode]
          /\ result' = Ok(rels)
    /\ pc' = "done"
    /\ UNCHANGED <<layer, dir, redo_log, saving, partial, completed,
                 threads, page_versions_lock, relsizes_lock, pair>>

Load(tag, lsn) ==
    /\ pc = "idle"
    /\ \E found \in FindLatestResults(dir, tag, lsn) :
          /\ call' = [op |-> "load", tag |-> tag, lsn |-> lsn, found |-> found]
          /\ result' = LoadFound(dir, tag, found)
    /\ pc' = "done"
    /\ UNCHANGED <<layer, dir, redo_log, saving, partial, completed,
                 threads, page_versions_lock, relsizes_lock, pair>>

\* create: build the unit in memory, then save() it
Create(tag, start_lsn, end_lsn, page_versions, relsizes) ==
    /\ pc = "idle"
    /\ partial = {} /\ Cardinality(completed) < MaxUnits
    /\ pc' = "save"
    /\ saving' = Some([snapfile |-> SnapshotLayer(tag, start_lsn, end_lsn,
                                                  page_versions, relsizes),
                       stage |-> "create_page_versions"])
    /\ call' = [op |-> "create"]
    /\ result' = NoResult
    /\ UNCHANGED <<layer, dir, redo_log, partial, completed,
                 threads, page_versions_lock, relsizes_lock, pair>>

\* File::create: the file exists and is empty, whatever it held before
FileCreate(d, name) == [n \in DOMAIN d \cup {name} |-> IF n = name THEN << >> ELSE d[n]]
\* one write() of write_all: the next n fields of buf reach the file
FileWrite(d, name, buf, n) == [d EXCEPT ![name] = SubSeq(buf, 1, Len(@) + n)]

SavePath(snap) == path_for(snap.tag, snap.start_lsn, snap.end_lsn)

\* a step of save(): File::create(name), then on to stage `next`
SaveCreateStep(name, next) ==
    /\ dir' = FileCreate(dir, name)
    /\ saving' = Some([saving.val EXCEPT !.stage = next])
    /\ UNCHANGED <<layer, pc, call, result, redo_log, partial, completed,
                 threads, page_versions_lock, relsizes_lock, pair>>

\* a step of save(): one write() of file.write_all(&buf); stage `next` follows
\* the last one
SaveWriteStep(name, buf, n, next) ==
    /\ Len(dir[name]) + n <= Len(buf)
    /\ dir' = FileWrite(dir, name, buf, n)
    /\ saving' = Some([saving.val EXCEPT !.stage =
                         IF Len(dir[name]) + n = Len(buf) THEN next ELSE @])
    /\ UNCHANGED <<layer, pc, call, result, redo_log, partial, completed,
                 threads, page_versions_lock, relsizes_lock, pair>>

SaveCreatePageVersions ==
    /\ pc = "save" /\ saving.val.stage = "create_page_versions"
    /\ SaveCreateStep(SavePath(saving.val.snapfile), "write_page_versions")

SaveWritePageVersions(n) ==
    /\ pc = "save" /\ saving.val.stage = "write_page_versions"
    /\ SaveWriteStep(SavePath(saving.val.snapfile),
                     SerPageVersions(saving.val.snapfile.page_versions),
                     n, "create_relsizes")

SaveCreateRelsizes ==
    /\ pc = "save" /\ saving.val.stage = "create_relsizes"
    /\ SaveCreateStep(relsizes_path(SavePath(saving.val.snapfile)), "write_relsizes")

SaveWriteRelsizes(n) ==
    /\ pc = "save" /\ saving.val.stage = "write_relsizes"
    /\ SaveWriteStep(relsizes_path(SavePath(saving.val.snapfile)),
                     SerRelsizes(saving.val.snapfile.relsizes), n, "return")

\* save() returned Ok(()), and create returns the unit
CreateReturn ==
    /\ pc = "save" /\ saving.val.stage = "return"
    /\ layer' = saving.val.snapfile
    /\ result' = Ok(saving.val.snapfile)
    /\ pc' = "done"
    /\ saving' = None
    /\ partial' = partial \ {Identity(saving.val.snapfile)}
    /\ completed' = completed \cup {saving.val.snapfile}
    /\ UNCHANGED <<dir, call, redo_log,
                 threads, page_versions_lock, relsizes_lock, pair>>

\* The process dies inside save(); what reached the directory stays, the unit in
\* memory is gone, and a new process starts with nothing loaded.  A save cut
\* short after it created its first file and before its last write finished
\* is recorded in `partial`; one that had written everything is complete.
Crash ==
    /\ pc = "save"
    /\ pc' = "idle"
    /\ saving' = None
    /\ layer' = None
    /\ call' = NoCall
    /\ result' = NoResult
    /\ partial' = IF saving.val.stage \in {"write_page_versions", "create_relsizes",
                                           "write_relsizes"}
                  THEN partial \cup {Identity(saving.val.snapfile)} ELSE partial
    /\ completed' = IF saving.val.stage = "return"
                    THEN completed \cup {saving.val.snapfile} ELSE completed
    /\ UNCHANGED <<dir, redo_log,
                 threads, page_versions_lock, relsizes_lock, pair>>

(***************************************************************************)
(* Specification of page reconstruction: the layer holds any version       *)
(* history within the bounds; callers ask for pages.                       *)
(***************************************************************************)
InitPage ==
    /\ threads = << >> /\ page_versions_lock = None /\ relsizes_lock = None
    /\ pair = << >>
    /\ layer \in { SnapshotLayer(Tag1, 1, MaxLsn + 1, pv, EmptyMap) :
                   pv \in PageVersionMaps(VersionKeys, MaxVersions) }
    /\ dir = EmptyMap
    /\ pc = "idle"
    /\ call = NoCall
    /\ result = NoResult
    /\ redo_log = << >>
    /\ saving = None
    /\ partial = {}
    /\ completed = {}

NextPage ==
    \/ \E blknum \in Blocks, lsn \in QueryLsns : GetPageAtLsn(blknum, lsn)
    \/ \E answer \in RedoAnswers : RequestRedoReturn(answer)
    \/ Return

SpecPage == InitPage /\ [][NextPage]_vars

(***************************************************************************)
(* Specification of the layer contract: the layer holds any size history   *)
(* within the bounds and a version history of one block; callers use every *)
(* operation of the Layer trait.                                           *)
(***************************************************************************)
LayerPageVersionMaps ==
    { m \in PageVersionMaps({<<0, 1>>}, 1) :
        \A k \in DOMAIN m : m[k].page_image.some \/ m[k].record.some }

InitLayer ==
    /\ threads = << >> /\ page_versions_lock = None /\ relsizes_lock = None
    /\ pair = << >>
    /\ layer \in { SnapshotLayer(Tag1, 1, MaxLsn + 1, pv, rs) :
                   pv \in LayerPageVersionMaps, rs \in RelSizeMaps }
    /\ dir = EmptyMap
    /\ pc = "idle"
    /\ call = NoCall
    /\ result = NoResult
    /\ redo_log = << >>
    /\ saving = None
    /\ partial = {}
    /\ completed = {}

NextLayer ==
    \/ \E blknum \in Blocks, lsn \in QueryLsns : GetPageAtLsn(blknum, lsn)
    \/ \E answer \in RedoAnswers : RequestRedoReturn(answer)
    \/ Return
    \/ \E lsn \in QueryLsns : get_rel_size(lsn)
    \/ \E lsn \in QueryLsns : get_rel_exists(lsn)
    \/ \E blknum \in Blocks, lsn \in QueryLsns :
          put_page_version(blknum, lsn, PageVersion(Some(ZERO_PAGE), None))
    \/ \E lsn \in QueryLsns, relsize \in 0 .. MaxRelSize : put_truncation(lsn, relsize)
    \/ \E end_lsn \in QueryLsns : freeze(end_lsn)

SpecLayer == InitLayer /\ [][NextLayer]_vars

(***************************************************************************)
(* Specification of the directory scanner: the timeline directory holds    *)
(* any files among unit files, companion files and unrelated names;        *)
(* callers look units up, list relations and load.                         *)
(***************************************************************************)
\* the histories written to disk in the directory specifications
DiskHistories ==
    { [page_versions |-> (<<0, 1>> :> PageVersion(Some(Bytes(BLCKSZ, 7)), None)),
       relsizes |-> (1 :> 1)],
      [page_versions |-> (<<0, 1>> :> PageVersion(None, Some(WALRecord(TRUE, 9)))),
       relsizes |-> (0 :> 0) @@ (1 :> 2)] }
DiskUnits ==
    { SnapshotLayer(tag, r[1], r[2], h.page_versions, h.relsizes) :
        tag \in Tags, r \in Ranges, h \in DiskHistories }

\* the directories of at most MaxFiles files, each a file of some unit (complete)
\* or an unrelated file
ScanDirs ==
    LET h == CHOOSE x \in DiskHistories : TRUE
        page_versions_buf == SerPageVersions(h.page_versions)
        relsizes_buf == SerRelsizes(h.relsizes)
    IN  { [n \in N |-> IF n \in UnitPaths THEN page_versions_buf
                       ELSE IF n \in CompanionPaths THEN relsizes_buf
                       ELSE << >>] :
          N \in { { DirNameList[i] : i \in I } :
                    I \in SubsetsUpTo(1 .. Len(DirNameList), MaxFiles) } }

FilterValues == {0, 1, 2}

InitScan ==
    /\ threads = << >> /\ page_versions_lock = None /\ relsizes_lock = None
    /\ pair = << >>
    /\ dir \in ScanDirs
    /\ layer = None
    /\ pc = "idle"
    /\ call = NoCall
    /\ result = NoResult
    /\ redo_log = << >>
    /\ saving = None
    /\ partial = {}
    /\ completed = {}

NextScan ==
    \/ \E tag \in Tags, lsn \in QueryLsns : FindLatestSnapshotFile(tag, lsn)
    \/ \E spcnode \in FilterValues, dbnode \in FilterValues : ListRels(spcnode, dbnode)
    \/ \E tag \in Tags, lsn \in QueryLsns : Load(tag, lsn)
    \/ Return

SpecScan == InitScan /\ [][NextScan]_vars

(***************************************************************************)
(* Specification of persistence: the directory starts empty; units are     *)
(* created, a save may be cut short by a crash at any step, and callers    *)
(* load.                                                                   *)
(***************************************************************************)
InitSave ==
    /\ threads = << >> /\ page_versions_lock = None /\ relsizes_lock = None
    /\ pair = << >>
    /\ dir = EmptyMap
    /\ completed = {}
    /\ layer = None
    /\ pc = "idle"
    /\ call = NoCall
    /\ result = NoResult
    /\ redo_log = << >>
    /\ saving = None
    /\ partial = {}

NextSave ==
    \/ \E u \in DiskUnits :
          Create(u.tag, u.start_lsn, u.end_lsn, u.page_versions, u.relsizes)
    \/ SaveCreatePageVersions
    \/ \E n \in 1 .. MaxWrite : SaveWritePageVersions(n)
    \/ SaveCreateRelsizes
    \/ \E n \in 1 .. MaxWrite : SaveWriteRelsizes(n)
    \/ CreateReturn
    \/ Crash
    \/ \E tag \in Tags, lsn \in QueryLsns : Load(tag, lsn)
    \/ Return

SpecSave == InitSave /\ [][NextSave]_vars

(***************************************************************************)
(* Concurrent callers of one unit.  Each thread runs get_page_at_lsn or    *)
(* get_rel_size step by step: it waits for the mutex, holds it for the     *)
(* block that scans, and goes on without it.                               *)
(***************************************************************************)
Threads == {1, 2}

IdleThread ==
    [pc |-> "idle", call |-> NoCall, scan |-> None, redo |-> None, result |-> NoResult]

ThreadUnchanged ==
    UNCHANGED <<layer, dir, pc, call, result, redo_log, saving, partial, completed,
                pair>>

\* a thread enters get_page_at_lsn and reaches self.page_versions.lock()
ThreadCall(t, blknum, lsn) ==
    /\ threads[t].pc = "idle"
    /\ threads' = [threads EXCEPT ![t] =
                     [@ EXCEPT !.pc = "lock_page_versions",
                               !.call = [op |-> "get_page_at_lsn",
                                         blknum |-> blknum, lsn |-> lsn]]]
    /\ UNCHANGED <<page_versions_lock, relsizes_lock>>
    /\ ThreadUnchanged

\* self.page_versions.lock().unwrap() returns the guard
ThreadLock(t) ==
    /\ threads[t].pc = "lock_page_versions"
    /\ page_versions_lock = None
    /\ page_versions_lock' = Some(t)
    /\ threads' = [threads EXCEPT ![t] = [@ EXCEPT !.pc = "scan"]]
    /\ UNCHANGED relsizes_lock
    /\ ThreadUnchanged

\* the backward scan, to the end of the block that owns the guard
\* (variant: the guard lives to the end of the function)
ThreadScanMutHoldLock(t) ==
    /\ threads[t].pc = "scan"
    /\ threads' = [threads EXCEPT ![t] =
                     [@ EXCEPT !.pc = "resolve",
                               !.scan = Some(Scan(layer.page_versions,
                                                  threads[t].call.blknum,
                                                  threads[t].call.lsn))]]
    /\ UNCHANGED <<page_versions_lock, relsizes_lock>>
    /\ ThreadUnchanged
ThreadScan(t) ==
    /\ threads[t].pc = "scan"
    /\ threads' = [threads EXCEPT ![t] =
                     [@ EXCEPT !.pc = "resolve",
                               !.scan = Some(Scan(layer.page_versions,
                                                  threads[t].call.blknum,
                                                  threads[t].call.lsn))]]
    /\ page_versions_lock' = None
    /\ UNCHANGED relsizes_lock
    /\ ThreadUnchanged

\* what follows the scan: a return, or the call of walredo_mgr.request_redo
ThreadResolved(t, r) ==
    threads' = [threads EXCEPT ![t] =
                  IF r.kind = "redo"
                  THEN [@ EXCEPT !.pc = "redo", !.redo = Some(r.req)]
                  ELSE [@ EXCEPT !.pc = "done", !.result = r.res]]
ThreadResolve(t) ==
    /\ threads[t].pc = "resolve"
    /\ ThreadResolved(t, Resolve(layer.tag, threads[t].call.blknum,
                                 threads[t].call.lsn, threads[t].scan.val))
    /\ UNCHANGED <<page_versions_lock, relsizes_lock>>
    /\ ThreadUnchanged

\* request_redo returns to the thread that called it
ThreadRedoReturn(t, answer) ==
    /\ threads[t].pc = "redo"
    /\ threads' = [threads EXCEPT ![t] = [@ EXCEPT !.pc = "done", !.result = answer]]
    /\ UNCHANGED <<page_versions_lock, relsizes_lock>>
    /\ ThreadUnchanged

\* the thread's caller takes the result
ThreadReturn(t) ==
    /\ threads[t].pc = "done"
    /\ threads' = [threads EXCEPT ![t] = IdleThread]
    /\ UNCHANGED <<page_versions_lock, relsizes_lock>>
    /\ ThreadUnchanged

\* a thread enters get_rel_size and reaches self.relsizes.lock()
ThreadRelSizeCall(t, lsn) ==
    /\ threads[t].pc = "idle"
    /\ threads' = [threads EXCEPT ![t] =
                     [@ EXCEPT !.pc = "lock_relsizes",
                               !.call = [op |-> "get_rel_size", lsn |-> lsn]]]
    /\ UNCHANGED <<page_versions_lock, relsizes_lock>>
    /\ ThreadUnchanged

\* self.relsizes.lock().unwrap() returns the guard
ThreadRelSizeLock(t) ==
    /\ threads[t].pc = "lock_relsizes"
    /\ relsizes_lock = None
    /\ relsizes_lock' = Some(t)
    /\ threads' = [threads EXCEPT ![t] = [@ EXCEPT !.pc = "relsizes"]]
    /\ UNCHANGED page_versions_lock
    /\ ThreadUnchanged

\* the lookup and the return, which drops the guard
ThreadRelSize(t) ==
    /\ threads[t].pc = "relsizes"
    /\ threads' = [threads EXCEPT ![t] =
                     [@ EXCEPT !.pc = "done",
                               !.result = RelSizeAt(layer.relsizes, threads[t].call.lsn)]]
    /\ relsizes_lock' = None
    /\ UNCHANGED page_versions_lock
    /\ ThreadUnchanged

(***************************************************************************)
(* Specification of concurrent reads: two threads call get_page_at_lsn and *)
(* get_rel_size on one unit.  A thread that waits for a free mutex gets    *)
(* it, and a thread that runs keeps running; a caller need not call, and   *)
(* the redo executor need not answer.                                      *)
(***************************************************************************)
InitThreads ==
    /\ layer \in { SnapshotLayer(Tag1, 1, MaxLsn + 1, pv, (1 :> 1)) :
                   pv \in PageVersionMaps({<<0, 1>>}, 1) }
    /\ threads = [t \in Threads |-> IdleThread]
    /\ page_versions_lock = None
    /\ relsizes_lock = None
    /\ pair = << >>
    /\ dir = EmptyMap
    /\ pc = "idle"
    /\ call = NoCall
    /\ result = NoResult
    /\ redo_log = << >>
    /\ saving = None
    /\ partial = {}
    /\ completed = {}

NextThreads ==
    \/ \E t \in Threads, blknum \in Blocks, lsn \in QueryLsns : ThreadCall(t, blknum, lsn)
    \/ \E t \in Threads : ThreadLock(t)
    \/ \E t \in Threads : ThreadScan(t)
    \/ \E t \in Threads : ThreadResolve(t)
    \/ \E t \in Threads, answer \in RedoAnswers : ThreadRedoReturn(t, answer)
    \/ \E t \in Threads : ThreadReturn(t)
    \/ \E t \in Threads, lsn \in QueryLsns : ThreadRelSizeCall(t, lsn)
    \/ \E t \in Threads : ThreadRelSizeLock(t)
    \/ \E t \in Threads : ThreadRelSize(t)

ThreadsFairness ==
    \A t \in Threads :
        /\ WF_vars(ThreadLock(t))
        /\ WF_vars(ThreadScan(t))
        /\ WF_vars(ThreadResolve(t))
        /\ WF_vars(ThreadRelSizeLock(t))
        /\ WF_vars(ThreadRelSize(t))

SpecThreads == InitThreads /\ [][NextThreads]_vars /\ ThreadsFairness

(***************************************************************************)
(* Specification of two units: two SnapshotLayers of one identity, each    *)
(* with a version history of its own, are given the same get_page_at_lsn   *)
(* call.  An outcome is what the call did: the value it returned, or the   *)
(* request it passed to walredo_mgr.request_redo.                          *)
(***************************************************************************)
Units == {1, 2}
PairKeys == {<<0, 0>>, <<0, 1>>, <<1, 0>>}

PairUnit(pv) ==
    [layer |-> SnapshotLayer(Tag1, 0, MaxLsn + 1, pv, EmptyMap), outcome |-> None]

\* get_page_at_lsn(blknum, lsn) on each of the two units, up to its return
\* or its request_redo call
PairGetPageAtLsn(blknum, lsn) ==
    /\ pc = "idle"
    /\ pair # << >>
    /\ call' = [op |-> "get_page_at_lsn", blknum |-> blknum, lsn |-> lsn]
    /\ pc' = "done"
    /\ pair' = [u \in Units |->
                  [pair[u] EXCEPT !.outcome =
                      Some(Resolve(pair[u].layer.tag, blknum, lsn,
                                   Scan(pair[u].layer.page_versions, blknum, lsn)))]]
    /\ UNCHANGED <<layer, dir, result, redo_log, saving, partial, completed,
                 threads, page_versions_lock, relsizes_lock>>

\* Both callers are done with what they got and free to make the next call.
PairReturn ==
    /\ pc = "done"
    /\ pair # << >>
    /\ pc' = "idle"
    /\ call' = NoCall
    /\ pair' = [u \in Units |-> [pair[u] EXCEPT !.outcome = None]]
    /\ UNCHANGED <<layer, dir, result, redo_log, saving, partial, completed,
                 threads, page_versions_lock, relsizes_lock>>

InitPair ==
    /\ pair \in [Units -> { PairUnit(pv) : pv \in PageVersionMaps(PairKeys, MaxVersions) }]
    /\ layer = None
    /\ threads = << >>
    /\ page_versions_lock = None
    /\ relsizes_lock = None
    /\ dir = EmptyMap
    /\ pc = "idle"
    /\ call = NoCall
    /\ result = NoResult
    /\ redo_log = << >>
    /\ saving = None
    /\ partial = {}
    /\ completed = {}

NextPair ==
    \/ \E blknum \in Blocks, lsn \in QueryLsns : PairGetPageAtLsn(blknum, lsn)
    \/ PairReturn

SpecPair == InitPair /\ [][NextPair]_vars

(***************************************************************************)
(* What the claims say about page reconstruction, stated on the version    *)
(* history itself (not by way of the scan).                                *)
(***************************************************************************)
IsImage(pv, k) == k \in DOMAIN pv /\ pv[k].page_image.some
IsRecord(pv, k) == k \in DOMAIN pv /\ ~ pv[k].page_image.some /\ pv[k].record.some
IsInitRecord(pv, k) == IsRecord(pv, k) /\ pv[k].record.val.will_init
IsNeither(pv, k) ==
    k \in DOMAIN pv /\ ~ pv[k].page_image.some /\ ~ pv[k].record.some

\* LSNs at or before lsn where block b has a full image or a will_init record
StopLsns(pv, b, lsn) ==
    { l \in 0 .. lsn : IsImage(pv, <<b, l>>) \/ IsInitRecord(pv, <<b, l>>) }
Newest(S) == CHOOSE l \in S : \A m \in S : m <= l

\* the WAL records of block b with LSN in lo..hi, oldest first
RECURSIVE RecordsAscending(_, _, _, _)
RecordsAscending(pv, b, lo, hi) ==
    IF lo > hi THEN << >>
    ELSE (IF IsRecord(pv, <<b, lo>>) THEN <<pv[<<b, lo>>].record.val>> ELSE << >>)
         \o RecordsAscending(pv, b, lo + 1, hi)

GetPageCalled == layer # None /\ call.op = "get_page_at_lsn"

\* The case of C1: block b has a stop entry S at or before lsn, at least one WAL
\* record in [S.lsn, lsn], and only images and records in between.
RedoCase(pv, b, lsn) ==
    /\ StopLsns(pv, b, lsn) # {}
    /\ LET s == Newest(StopLsns(pv, b, lsn))
       IN  /\ \E l \in s .. lsn : IsRecord(pv, <<b, l>>)
           /\ \A l \in s .. lsn : ~ IsNeither(pv, <<b, l>>)

ExpectedRedo(tag, pv, b, lsn) ==
    LET s == Newest(StopLsns(pv, b, lsn))
    IN  [tag |-> tag, blknum |-> b, lsn |-> lsn,
         base_img |-> IF IsImage(pv, <<b, s>>) THEN pv[<<b, s>>].page_image ELSE None,
         records |-> RecordsAscending(pv, b, s, lsn)]

\* C1: when the block has WAL records to replay on top of a stop entry S (the
\* newest full image or will_init record at or before lsn), get_page_at_lsn
\* calls the redo executor exactly once, with S's image as base (none if S is a
\* will_init record) and exactly the block's records in [S.lsn, lsn], oldest
\* first; and it returns what the executor answered.
C1_RedoChain ==
    (GetPageCalled /\ RedoCase(layer.page_versions, call.blknum, call.lsn)) =>
        /\ redo_log = <<ExpectedRedo(layer.tag, layer.page_versions,
                                     call.blknum, call.lsn)>>
        /\ pc \in {"redo", "done"}
        /\ pc = "redo" => result = NoResult
        /\ pc = "done" => result \in RedoAnswers

\* a base image and two records were replayed and the executor's image returned
C1_Witness ==
    /\ GetPageCalled /\ RedoCase(layer.page_versions, call.blknum, call.lsn)
    /\ pc = "done" /\ result = Ok(RedoImage)
    /\ Len(redo_log) = 1
    /\ redo_log[1].base_img.some
    /\ Len(redo_log[1].records) = 2

\* The case of C4: block b has WAL records at or before lsn but neither a full
\* image nor a will_init record (and no entry holding neither).
NoBaseCase(pv, b, lsn) ==
    /\ \E l \in 0 .. lsn : IsRecord(pv, <<b, l>>)
    /\ StopLsns(pv, b, lsn) = {}
    /\ \A l \in 0 .. lsn : ~ IsNeither(pv, <<b, l>>)

\* C4 as claimed: with records but no resolvable base the call returns Ok with
\* the zero page, without calling the redo executor.
C4_ZeroPageFallback ==
    (GetPageCalled /\ NoBaseCase(layer.page_versions, call.blknum, call.lsn)) =>
        /\ pc = "done" /\ redo_log = << >>
        /\ result = Ok(ZERO_PAGE)

\* C4 as amended: with records but no resolvable base the call fails with the
\* "No base image found" error, without calling the redo executor.
C4_NoBaseIsError ==
    (GetPageCalled /\ NoBaseCase(layer.page_versions, call.blknum, call.lsn)) =>
        /\ pc = "done" /\ redo_log = << >>
        /\ result = Err("No base image found")

C4_Witness ==
    /\ GetPageCalled /\ NoBaseCase(layer.page_versions, call.blknum, call.lsn)
    /\ pc = "done" /\ result.kind = "err"
    /\ Cardinality({ l \in 0 .. call.lsn :
                       IsRecord(layer.page_versions, <<call.blknum, l>>) }) = 2

\* The case of C5: block b has no entry at all at or before lsn.
NeverWritten(pv, b, lsn) == \A l \in 0 .. lsn : <<b, l>> \notin DOMAIN pv

\* C5: a block with no entry at or before lsn reads as the all-zero page of
\* 8192 bytes, without error and without calling the redo executor.
C5_NeverWrittenIsZero ==
    (GetPageCalled /\ NeverWritten(layer.page_versions, call.blknum, call.lsn)) =>
        /\ pc = "done" /\ redo_log = << >>
        /\ result = Ok(ZERO_PAGE)
        /\ result.val.len = 8192 /\ result.val.fill = 0

\* the block has a later entry and another block has an earlier one
C5_Witness ==
    /\ GetPageCalled /\ NeverWritten(layer.page_versions, call.blknum, call.lsn)
    /\ pc = "done" /\ result = Ok(ZERO_PAGE)
    /\ \E k \in DOMAIN layer.page_versions : k[1] = call.blknum /\ k[2] > call.lsn
    /\ \E k \in DOMAIN layer.page_versions : k[1] # call.blknum /\ k[2] <= call.lsn

\* The case of C11: the newest entry of block b at or before lsn, at LSN l, is
\* a full image.
NewestIsImageAt(pv, b, lsn, l) ==
    /\ IsImage(pv, <<b, l>>)
    /\ \A m \in l + 1 .. lsn : <<b, m>> \notin DOMAIN pv

\* C11: when the newest entry of the block at or before lsn is a full image,
\* get_page_at_lsn returns exactly that image and makes no redo call, whatever
\* older images or records the block has.
C11_NewestImageReturned ==
    GetPageCalled =>
        \A l \in 0 .. call.lsn :
            NewestIsImageAt(layer.page_versions, call.blknum, call.lsn, l) =>
                /\ pc = "done" /\ redo_log = << >>
                /\ result = Ok(layer.page_versions[<<call.blknum, l>>].page_image.val)

\* the image returned has an older image and an older record below it
C11_Witness ==
    /\ GetPageCalled /\ pc = "done" /\ result.kind = "ok" /\ redo_log = << >>
    /\ \E l \in 0 .. call.lsn :
          /\ NewestIsImageAt(layer.page_versions, call.blknum, call.lsn, l)
          /\ result.val = layer.page_versions[<<call.blknum, l>>].page_image.val
          /\ \E j, k \in 0 .. l - 1 :
                /\ IsImage(layer.page_versions, <<call.blknum, j>>)
                /\ IsRecord(layer.page_versions, <<call.blknum, k>>)

(***************************************************************************)
(* What the claims say about the layer contract.                           *)
(***************************************************************************)
\* every answer a read of layer l can give
PageAnswers(l) ==
    [b \in Blocks, lsn \in QueryLsns |->
        Resolve(l.tag, b, lsn, Scan(l.page_versions, b, lsn))]
SizeAnswers(l) == [lsn \in QueryLsns |-> RelSizeAt(l.relsizes, lsn)]
ExistsAnswers(l) == [lsn \in QueryLsns |-> RelExistsAt(l.relsizes, lsn)]

\* C6: every step leaves the unit as it was (histories, tag, range, frozen),
\* put_page_version aborts, put_truncation and freeze return an error, and every
\* read answers after the step what it answered before.
C6_Immutability ==
    [][ /\ layer' = layer
        /\ is_frozen(layer')
        /\ call'.op = "put_page_version" => result'.kind = "panic"
        /\ call'.op \in {"put_truncation", "freeze"} => result'.kind = "err"
        /\ PageAnswers(layer') = PageAnswers(layer)
        /\ SizeAnswers(layer') = SizeAnswers(layer)
        /\ ExistsAnswers(layer') = ExistsAnswers(layer) ]_vars

\* a truncation below the known size was attempted and refused
C6_Witness ==
    /\ call.op = "put_truncation" /\ result.kind = "err"
    /\ call.lsn \notin DOMAIN layer.relsizes
    /\ \E k \in DOMAIN layer.relsizes : k < call.lsn /\ layer.relsizes[k] > call.relsize
    /\ layer.page_versions # EmptyMap

\* C7: get_rel_exists never fails and tells whether the size history has an
\* entry at or before lsn; get_rel_size returns the value at the greatest such
\* key, and fails exactly when there is none.
C7_SizeQueries ==
    /\ (layer # None /\ call.op = "get_rel_exists") =>
          result = Ok(\E k \in DOMAIN layer.relsizes : k <= call.lsn)
    /\ (layer # None /\ call.op = "get_rel_size") =>
          LET before == { k \in DOMAIN layer.relsizes : k <= call.lsn }
          IN  IF before = {} THEN result.kind = "err"
              ELSE \E k \in before :
                      /\ \A j \in before : j <= k
                      /\ result = Ok(layer.relsizes[k])

\* two sizes are known at or before lsn and the later one is returned
C7_Witness ==
    /\ layer # None /\ call.op = "get_rel_size" /\ result.kind = "ok"
    /\ \E j, k \in DOMAIN layer.relsizes :
          /\ j < k /\ k <= call.lsn
          /\ layer.relsizes[j] # layer.relsizes[k]
          /\ result.val = layer.relsizes[k]

(***************************************************************************)
(* What the claims say about the directory scanner.                        *)
(***************************************************************************)
Identities ==
    { [tag |-> tag, start_lsn |-> r[1], end_lsn |-> r[2]] : tag \in Tags, r \in Ranges }
UnitPath(id) == path_for(id.tag, id.start_lsn, id.end_lsn)
\* the units whose version-history file is in directory d
UnitsOnDisk(d) == { id \in Identities : UnitPath(id) \in DOMAIN d }
\* every size-history file of d stands beside its unit's version-history file
NoOrphanCompanion(d) ==
    \A id \in Identities :
        relsizes_path(UnitPath(id)) \in DOMAIN d => UnitPath(id) \in DOMAIN d

FindLatestCalled == pc = "done" /\ call.op = "find_latest_snapshot_file"
ListRelsCalled == pc = "done" /\ call.op = "list_rels"
LoadCalled == pc = "done" /\ call.op = "load"

\* the units of directory d a query (tag, lsn) can select
Candidates(d, tag, lsn) ==
    { id \in UnitsOnDisk(d) : id.tag = tag /\ id.start_lsn <= lsn }

\* C2: find_latest_snapshot_file returns (start_lsn, end_lsn) of a unit of the
\* tag whose start_lsn is the largest one at or before lsn, and None exactly
\* when no unit of the tag starts at or before lsn; units starting at LSN 0
\* included.
C2_FindLatest ==
    (FindLatestCalled /\ NoOrphanCompanion(dir)) =>
        LET cands == Candidates(dir, call.tag, call.lsn)
        IN  IF cands = {} THEN result = Ok(None)
            ELSE \E id \in cands :
                    /\ \A other \in cands : other.start_lsn <= id.start_lsn
                    /\ result = Ok(Some([start_lsn |-> id.start_lsn,
                                         end_lsn |-> id.end_lsn]))

\* C2 holds of every query that has a unit starting after LSN 0 to select
C2_FindLatestAfterZero ==
    (FindLatestCalled /\ NoOrphanCompanion(dir)) =>
        LET cands == Candidates(dir, call.tag, call.lsn)
        IN  IF cands = {} THEN result = Ok(None)
            ELSE (\E id \in cands : id.start_lsn > 0) =>
                 \E id \in cands :
                    /\ \A other \in cands : other.start_lsn <= id.start_lsn
                    /\ result = Ok(Some([start_lsn |-> id.start_lsn,
                                         end_lsn |-> id.end_lsn]))

\* the unit load returned
Loaded == result.val.val
LoadReturnedUnit == LoadCalled /\ result.kind = "ok" /\ result.val.some

\* C8 as claimed: a unit load returns covers the requested lsn, and a query
\* at or past the end of every unit of the tag yields None.
C8_LoadCovers ==
    /\ LoadReturnedUnit =>
          Loaded.start_lsn <= call.lsn /\ call.lsn < Loaded.end_lsn
    /\ (LoadCalled /\ NoOrphanCompanion(dir)
                   /\ \A id \in UnitsOnDisk(dir) :
                         id.tag = call.tag => call.lsn >= id.end_lsn)
          => result = Ok(None)

\* C8 as amended: a unit load returns has the requested tag and starts at or
\* before the requested lsn (which may lie at or past its end), and a query
\* below the start of every decodable name of the tag yields None.
C8_LoadStartsBefore ==
    /\ LoadReturnedUnit =>
          Loaded.tag = call.tag /\ Loaded.start_lsn <= call.lsn
    /\ (LoadCalled /\ \A p \in Decoded(DOMAIN dir) :
                         (p[2].some /\ p[2].val.tag = call.tag)
                            => p[2].val.start_lsn > call.lsn)
          => result = Ok(None)

\* load returned a unit for an lsn past the unit's end
C8_Witness ==
    /\ LoadReturnedUnit
    /\ Loaded.tag = call.tag /\ Loaded.start_lsn <= call.lsn
    /\ call.lsn >= Loaded.end_lsn
    /\ path_for(call.tag, Loaded.start_lsn, Loaded.end_lsn) \in DOMAIN dir

\* whether name ends with the companion suffix
IsCompanionName(name) ==
    /\ Len(name) >= Len(RelsizesSuffix)
    /\ SubSeq(name, Len(name) - Len(RelsizesSuffix) + 1, Len(name)) = RelsizesSuffix
\* directory d with every companion entry absent
WithoutCompanions(d) == [n \in { m \in DOMAIN d : ~ IsCompanionName(m) } |-> d[n]]

\* C9: find_latest_snapshot_file and list_rels return what they would return
\* if every entry whose name ends in _relsizes were absent from the directory.
C9_CompanionsIgnored ==
    /\ FindLatestCalled =>
          result.val \in FindLatestResults(WithoutCompanions(dir), call.tag, call.lsn)
    /\ ListRelsCalled =>
          result.val \in ListRelsResults(WithoutCompanions(dir),
                                         call.spcnode, call.dbnode)

(***************************************************************************)
(* What the claims say about persistence.                                  *)
(***************************************************************************)
\* The case of C3: the unit that create returned is on disk, no other unit of
\* its tag is, and load asks for its tag at an lsn of its range.
RoundTripCase ==
    /\ LoadCalled /\ layer # None
    /\ call.tag = layer.tag
    /\ layer.start_lsn <= call.lsn /\ call.lsn < layer.end_lsn
    /\ \A id \in UnitsOnDisk(dir) : id.tag = layer.tag => id = Identity(layer)

\* C3: create followed by load of the unit's tag at an lsn of its range, with
\* no other unit of the tag in the directory, returns a unit whose version
\* history and size history equal the ones created; ranges starting at LSN 0
\* included.
C3_RoundTrip ==
    RoundTripCase =>
        /\ result.kind = "ok" /\ result.val.some
        /\ Loaded.page_versions = layer.page_versions
        /\ Loaded.relsizes = layer.relsizes

\* C3 holds of every unit that starts after LSN 0
C3_RoundTripAfterZero ==
    (RoundTripCase /\ layer.start_lsn > 0) =>
        /\ result.kind = "ok" /\ result.val.some
        /\ Loaded.page_versions = layer.page_versions
        /\ Loaded.relsizes = layer.relsizes

\* The case of C10: load selected an identity whose save was cut short.
SelectedPartial ==
    /\ LoadCalled /\ call.found.some
    /\ [tag |-> call.tag, start_lsn |-> call.found.val.start_lsn,
        end_lsn |-> call.found.val.end_lsn] \in partial

\* C10: a load that selects an identity whose save was cut short by a crash
\* never returns None and never returns a unit that differs from what a
\* completed save wrote (the claim asks for more: that it returns an error).
C10_PartialSaveNeverLoads ==
    SelectedPartial =>
        /\ result # Ok(None)
        /\ result.kind = "ok" => Loaded \in completed

\* every way a cut-short save is loaded without error is an overwrite: a
\* completed save of the same identity came before it
C10_OnlyOverwritesLoad ==
    (SelectedPartial /\ result.kind = "ok") =>
        \E u \in completed : Identity(u) = Identity(Loaded)

(***************************************************************************)
(* What the claims say about concurrent reads.                             *)
(***************************************************************************)
InGetPage(t) == threads[t].call.op = "get_page_at_lsn"
\* thread t waits for, or holds, the page_versions mutex
AtScan(t) == threads[t].pc \in {"lock_page_versions", "scan"}

\* the page_versions mutex is held only by a thread in its scan, never by one
\* inside request_redo, and get_page_at_lsn never holds the relsizes mutex
LockScope ==
    \A t \in Threads :
        /\ page_versions_lock = Some(t) => threads[t].pc = "scan"
        /\ threads[t].pc = "redo" => page_versions_lock # Some(t)
        /\ InGetPage(t) => relsizes_lock # Some(t)

\* C12: in every interleaving no thread holds the page_versions mutex while it
\* is inside request_redo (the mutex is held during the scan only), and
\* get_page_at_lsn never holds the relsizes mutex; while one thread's redo
\* request is outstanding, even for ever, another thread that waits for the
\* mutex to scan gets it and completes its scan.
C12_LockReleasedBeforeRedo ==
    /\ []LockScope
    /\ \A t, u \in Threads :
          (t # u /\ threads[t].pc = "redo" /\ InGetPage(u) /\ AtScan(u))
             ~> (threads[t].pc # "redo" \/ ~ AtScan(u))

\* one thread is inside request_redo while the other holds the mutex and scans
C12_Witness ==
    \E t, u \in Threads :
        /\ t # u
        /\ threads[t].pc = "redo" /\ threads[t].redo.some
        /\ threads[u].pc = "scan" /\ page_versions_lock = Some(u)

(***************************************************************************)
(* Point-in-time isolation of get_page_at_lsn.                             *)
(***************************************************************************)
\* the entries of block b with an LSN of at most lsn
EntriesUpTo(pv, b, lsn) == { k \in DOMAIN pv : k[1] = b /\ k[2] <= lsn }

AgreeUpTo(pv1, pv2, b, lsn) ==
    /\ EntriesUpTo(pv1, b, lsn) = EntriesUpTo(pv2, b, lsn)
    /\ \A k \in EntriesUpTo(pv1, b, lsn) : pv1[k] = pv2[k]

PairCalled == pair # << >> /\ pc = "done" /\ call.op = "get_page_at_lsn"

PairAgrees ==
    AgreeUpTo(pair[1].layer.page_versions, pair[2].layer.page_versions,
              call.blknum, call.lsn)

\* C13: two version histories that hold the same entries for block b at
\* LSNs up to lsn, whatever else they hold (other blocks, entries of b
\* above lsn, entries there with neither image nor record), give
\* get_page_at_lsn(b, lsn) the same outcome: the same Ok image or the same
\* error, or the same request (base image, records, block, lsn) to redo.
C13_PointInTimeIsolation ==
    (PairCalled /\ PairAgrees) => pair[1].outcome = pair[2].outcome

\* a redo request made by both units although one history holds a later
\* entry of the block with neither image nor record and the other holds an
\* entry of another block
C13_Witness ==
    /\ PairCalled /\ PairAgrees
    /\ pair[1].outcome.val.kind = "redo"
    /\ pair[2].outcome.val.kind = "redo"
    /\ \E k \in DOMAIN pair[1].layer.page_versions :
          /\ k[1] = call.blknum /\ k[2] > call.lsn
          /\ IsNeither(pair[1].layer.page_versions, k)
          /\ k \notin DOMAIN pair[2].layer.page_versions
    /\ \E k \in DOMAIN pair[2].layer.page_versions :
          /\ k[1] # call.blknum
          /\ k \notin DOMAIN pair[1].layer.page_versions

====
